---- MODULE Spec2Model ----
(***************************************************************************)
(* Exam-session and scoring engine of ielts-mock (src/app.py).             *)
(*                                                                         *)
(* The persistence layer is one SQLite file shared by all requests.  Every *)
(* request opens its own connection (get_db) in the sqlite3 module's       *)
(* default mode: a SELECT runs outside any transaction, and an INSERT or   *)
(* UPDATE opens a transaction that the db.commit() right after it closes.  *)
(* A handler is therefore a sequence of atomic storage steps, and the      *)
(* steps of concurrent requests interleave freely.  A step is one read of  *)
(* submissions or answers, or one write with its commit.  The tables tests *)
(* and questions are never written by these handlers, so a read of them    *)
(* commutes with every other step and is taken together with the step next *)
(* to it.                                                                  *)
(*                                                                         *)
(* Encodings: a string is a sequence of one-character strings; SQL NULL in *)
(* a text column is the one-element sequence NULL, equal to no string; a   *)
(* band score is held in tenths (9.0 is 90); a timestamp is a clock        *)
(* reading >= 1 and NoTime is the NULL of finished_at.  A row's id is its  *)
(* position in its table (AUTOINCREMENT, and no handler deletes a row).    *)
(***************************************************************************)
EXTENDS Integers, Sequences, FiniteSets, TLC

VARIABLES
    submissions,  \* table submissions: sequence of rows, id = index
    answers,      \* table answers: sequence of rows, id = index
    now,          \* last value datetime.utcnow() returned
    pc,           \* per worker: the step its handler takes next, or "idle"
    req,          \* per worker: the request it serves (route arguments, user)
    loc,          \* per worker: the handler's local variables
    sent,         \* the response sent last, with the request it answers
    written_total,\* history: per submission, the total its last finish read
    nreq,         \* number of requests received so far
    questions,    \* table questions: sequence of rows, id = index
    calc          \* a call of a pure function: its arguments and its result

vars == <<submissions, answers, now, pc, req, loc, sent, written_total, nreq,
          questions, calc>>

----------------------------------------------------------------------------
(* Bounds of the model *)

\* requests served over a run
MaxReq == 3
\* largest clock reading
MaxClock == 2
\* requests in flight at once
NumWorkers == 2

Workers == 1..NumWorkers

----------------------------------------------------------------------------
(* Strings *)

NULL == <<"NULL">>
NoTime == 0

\* str.lower() on the characters the content store and the inputs use
LowerChar(c) ==
    CASE c = "B" -> "b"
      [] c = "P" -> "p"
      [] c = "A" -> "a"
      [] OTHER -> c

Lower(s) == [i \in DOMAIN s |-> LowerChar(s[i])]

IsSpace(c) == c = " "

RECURSIVE LStrip(_)
LStrip(s) == IF s # <<>> /\ IsSpace(Head(s)) THEN LStrip(Tail(s)) ELSE s

RECURSIVE RStrip(_)
RStrip(s) ==
    IF s # <<>> /\ IsSpace(s[Len(s)]) THEN RStrip(SubSeq(s, 1, Len(s) - 1)) ELSE s

\* str.strip()
Strip(s) == RStrip(LStrip(s))

\* (x or "")
OrEmpty(s) == IF s = NULL \/ s = <<>> THEN <<>> ELSE s

----------------------------------------------------------------------------
(* Content store and users.  The core only reads them: the users are the *)
(* two the seed command creates, test 1 is a seeded test with its imported *)
(* questions, test 2 a test admin_tests_create has made and no import has  *)
(* filled yet.                                                             *)

ADMIN == 1
STUDENT == 2
Users == {ADMIN, STUDENT}
Role(u) == IF u = ADMIN THEN "admin" ELSE "student"

tests == <<[slug |-> "listening-sample-1"], [slug |-> "mock-2"]>>

\* slugs a request may name: the stored ones and one that is not stored
Slugs == {"listening-sample-1", "mock-2", "no-such-test"}

\* the rows seed_cmd has stored for test 1
seed_questions == <<
    [test_id |-> 1, qtype |-> "mcq",  answer_key |-> <<"B">>],
    [test_id |-> 1, qtype |-> "fill", answer_key |-> NULL] >>

\* question ids a request may name: the stored ones and one that is not stored
QuestionIds == 1..(Len(questions) + 1)

\* the "response" field of the posted JSON (NULL: absent)
RawResponses == {NULL, <<" ", "B">>}

----------------------------------------------------------------------------
(* Pure functions *)

\* mcq answers compared without regard to case as well
Grade_case_blind(q, response) ==
    IF Lower(response) = Lower(OrEmpty(q.answer_key)) THEN 1 ELSE 0

\* no (x or "") around the key
Grade_key_as_stored(q, response) ==
    IF q.qtype = "mcq"
    THEN IF response = q.answer_key THEN 1 ELSE 0
    ELSE IF Lower(response) = Lower(q.answer_key) THEN 1 ELSE 0

\* api_answer's grading of a response against question row q
Grade(q, response) ==
    IF q.qtype = "mcq"
    THEN IF response = q.answer_key THEN 1 ELSE 0
    ELSE IF Lower(response) = Lower(OrEmpty(q.answer_key)) THEN 1 ELSE 0

\* A Python float is an IEEE 754 binary64: a significand of 53 binary
\* digits, the first of them 1, and an exponent.  A double is held as its
\* exponent e and the 52 digits after the first, in four limbs m[1..4] of
\* 13 digits each: the value is (1 + m[1]/Limb + m[2]/Limb^2 + m[3]/Limb^3
\* + m[4]/Limb^4) * 2^e.  0.0 is held with the least exponent and limbs 0.
Limb == 8192

RECURSIVE Normalise(_, _, _)
\* a/b * 2^e with a, b > 0, rescaled until 1 <= a/b < 2
Normalise(a, b, e) ==
    IF a < b THEN Normalise(2 * a, b, e - 1)
    ELSE IF a >= 2 * b THEN Normalise(a, 2 * b, e + 1)
    ELSE [a |-> a, b |-> b, e |-> e]

\* the significand m plus one unit in its last place
NextUp(e, m) ==
    IF \A i \in DOMAIN m : m[i] = Limb - 1
    THEN [e |-> e + 1, m |-> [i \in DOMAIN m |-> 0]]
    ELSE LET k == CHOOSE i \in DOMAIN m :
                      m[i] < Limb - 1
                      /\ \A j \in DOMAIN m : j > i => m[j] = Limb - 1
         IN  [e |-> e,
              m |-> [i \in DOMAIN m |-> IF i < k THEN m[i]
                                        ELSE IF i = k THEN m[i] + 1 ELSE 0]]

\* the double nearest to a/b (a >= 0, b > 0), ties to the even significand:
\* what the division raw / total returns and what a literal such as 0.85
\* (85/100) denotes.  The digits come by long division, a limb at a time.
Double(a, b) ==
    IF a = 0
    THEN [e |-> -1023, m |-> <<0, 0, 0, 0>>]
    ELSE LET n == Normalise(a, b, 0)
             r0 == n.a - n.b
             r1 == (r0 * Limb) % n.b
             r2 == (r1 * Limb) % n.b
             r3 == (r2 * Limb) % n.b
             r4 == (r3 * Limb) % n.b
             m == <<(r0 * Limb) \div n.b, (r1 * Limb) \div n.b,
                    (r2 * Limb) \div n.b, (r3 * Limb) \div n.b>>
             half == 2 * r4 >= n.b
             rest == IF half THEN 2 * r4 - n.b ELSE 2 * r4
         IN  IF half /\ (rest # 0 \/ m[4] % 2 = 1)
             THEN NextUp(n.e, m)
             ELSE [e |-> n.e, m |-> m]

\* x >= y for two doubles that are not negative
AtLeast(x, y) ==
    \/ x.e > y.e
    \/ /\ x.e = y.e
       /\ \/ x.m = y.m
          \/ \E i \in DOMAIN x.m :
                 /\ x.m[i] > y.m[i]
                 /\ \A j \in 1..(i - 1) : x.m[j] = y.m[j]

\* the chain of comparisons of band_from_raw, in tenths: pct is compared
\* as a double with each threshold literal in turn
band_of(pct) ==
    IF AtLeast(pct, Double(95, 100)) THEN 90
    ELSE IF AtLeast(pct, Double(90, 100)) THEN 85
    ELSE IF AtLeast(pct, Double(85, 100)) THEN 80
    ELSE IF AtLeast(pct, Double(75, 100)) THEN 75
    ELSE IF AtLeast(pct, Double(70, 100)) THEN 70
    ELSE IF AtLeast(pct, Double(65, 100)) THEN 65
    ELSE IF AtLeast(pct, Double(60, 100)) THEN 60
    ELSE IF AtLeast(pct, Double(55, 100)) THEN 55
    ELSE IF AtLeast(pct, Double(50, 100)) THEN 50
    ELSE IF AtLeast(pct, Double(45, 100)) THEN 45
    ELSE 40

\* pct = raw // total
band_from_raw_floor_division(raw, total) ==
    IF total = 0 THEN 0 ELSE band_of(Double(raw \div total, 1))

\* pct = total / raw
band_from_raw_inverted(raw, total) ==
    IF total = 0 THEN 0
    ELSE IF raw = 0 THEN 90 ELSE band_of(Double(total, raw))

\* if not total: return 0.0; pct = raw / total
band_from_raw(raw, total) ==
    IF total = 0 THEN 0 ELSE band_of(Double(raw, total))

----------------------------------------------------------------------------
(* Queries *)

\* SELECT * FROM tests WHERE slug = ?  (the row's id, 0 when there is none)
TestBySlug(slug) ==
    IF \E t \in DOMAIN tests : tests[t].slug = slug
    THEN CHOOSE t \in DOMAIN tests : tests[t].slug = slug
    ELSE 0

\* SELECT COUNT(*) FROM questions WHERE test_id = ?
CountQuestions(test_id) ==
    Cardinality({q \in DOMAIN questions : questions[q].test_id = test_id})

\* no AND is_correct = 1
CountCorrect_every_row(ans, submission_id) ==
    Cardinality({a \in DOMAIN ans : ans[a].submission_id = submission_id})

\* SELECT COUNT(*) FROM answers WHERE submission_id = ? AND is_correct = 1
CountCorrect(ans, submission_id) ==
    Cardinality({a \in DOMAIN ans :
        ans[a].submission_id = submission_id /\ ans[a].is_correct = 1})

\* ids of the answers rows of one (submission, question) pair
AnswerIds(ans, submission_id, question_id) ==
    {a \in DOMAIN ans : ans[a].submission_id = submission_id
                        /\ ans[a].question_id = question_id}

\* SELECT id FROM answers WHERE submission_id = ? AND question_id = ?
\* fetchone() of a table scan: the matching row of lowest rowid, 0 for none
SelectExisting(ans, submission_id, question_id) ==
    LET ids == AnswerIds(ans, submission_id, question_id)
    IN  IF ids = {} THEN 0 ELSE CHOOSE a \in ids : \A b \in ids : a <= b

----------------------------------------------------------------------------
(* Guards of the handlers *)

\* a test_start without its check of the test
StartRefused_unchecked(test) == FALSE

\* test_start: if not test
StartRefused(test) == test = 0

\* api_answer with the check of results_view, which lets an admin through
AnswerRefused_admin(subs, submission_id, user) ==
    \/ submission_id \notin DOMAIN subs
    \/ (subs[submission_id].user_id # user /\ Role(user) # "admin")

\* api_answer: if not sub or sub["user_id"] != current_user.id
AnswerRefused(subs, submission_id, user) ==
    \/ submission_id \notin DOMAIN subs
    \/ subs[submission_id].user_id # user

\* api_answer: if not q
QuestionMissing(question_id) == question_id \notin DOMAIN questions

\* a test_finish that takes a submission only while it is open
FinishRefused_when_finished(subs, test, submission_id, user) ==
    \/ test = 0
    \/ submission_id \notin DOMAIN subs
    \/ subs[submission_id].user_id # user
    \/ subs[submission_id].finished_at # NoTime

\* test_finish: if not test or not sub or sub["user_id"] != current_user.id
FinishRefused(subs, test, submission_id, user) ==
    \/ test = 0
    \/ submission_id \notin DOMAIN subs
    \/ subs[submission_id].user_id # user

\* a results_view that checks only that the submission exists
ResultRefused_open(subs, submission_id, user) ==
    submission_id \notin DOMAIN subs

\* results_view: if not sub or (sub["user_id"] != current_user.id
\*                              and current_user.role != "admin")
ResultRefused(subs, submission_id, user) ==
    \/ submission_id \notin DOMAIN subs
    \/ (subs[submission_id].user_id # user /\ Role(user) # "admin")

----------------------------------------------------------------------------
(* Writes *)

\* INSERT INTO submissions (user_id, test_id, started_at): the other
\* columns take the defaults of the schema
NewSubmission(user, test, started) ==
    [user_id |-> user, test_id |-> test, started_at |-> started,
     finished_at |-> NoTime, raw_score |-> 0, band_score |-> 0]

\* an api_answer whose UPDATE sets the response and leaves is_correct alone
WriteAnswer_stale_flag(ans, existing, submission_id, question_id, response, correct) ==
    IF existing # 0
    THEN [ans EXCEPT ![existing].response = response]
    ELSE Append(ans, [submission_id |-> submission_id,
                      question_id |-> question_id,
                      response |-> response, is_correct |-> correct])

\* an api_answer whose INSERT binds the two ids in the wrong order
WriteAnswer_swapped(ans, existing, submission_id, question_id, response, correct) ==
    IF existing # 0
    THEN [ans EXCEPT ![existing].response = response,
                     ![existing].is_correct = correct]
    ELSE Append(ans, [submission_id |-> question_id,
                      question_id |-> submission_id,
                      response |-> response, is_correct |-> correct])

\* api_answer's write: UPDATE the row found, INSERT when none was found
WriteAnswer(ans, existing, submission_id, question_id, response, correct) ==
    IF existing # 0
    THEN [ans EXCEPT ![existing].response = response,
                     ![existing].is_correct = correct]
    ELSE Append(ans, [submission_id |-> submission_id,
                      question_id |-> question_id,
                      response |-> response, is_correct |-> correct])

\* a test_finish whose UPDATE leaves band_score out
FinishRow_no_band(subs, submission_id, correct, band, stamp) ==
    [subs EXCEPT ![submission_id].raw_score = correct,
                 ![submission_id].finished_at = stamp]

\* a finish that reopens a submission it finds finished
FinishRow_reopen(subs, submission_id, correct, band, stamp) ==
    [subs EXCEPT ![submission_id].raw_score = correct,
                 ![submission_id].band_score = band,
                 ![submission_id].finished_at =
                     IF @ = NoTime THEN stamp ELSE NoTime]

\* UPDATE submissions SET raw_score=?, band_score=?, finished_at=? WHERE id=?
FinishRow(subs, submission_id, correct, band, stamp) ==
    [subs EXCEPT ![submission_id].raw_score = correct,
                 ![submission_id].band_score = band,
                 ![submission_id].finished_at = stamp]

----------------------------------------------------------------------------
(* State *)

NoReq == [kind |-> "none", user |-> 0, slug |-> "", submission_id |-> 0,
          question_id |-> 0, response |-> NULL]
NoLoc == [test |-> 0, correct |-> 0, existing |-> 0, total |-> 0]
\* what a response carries; a field a handler does not return stays 0
NoBody == [submission_id |-> 0, is_correct |-> 0, raw_score |-> 0,
           band_score |-> 0, total |-> 0]
NoAnswer == [submission_id |-> 0, question_id |-> 0, response |-> NULL,
             is_correct |-> 0]
\* no pure function is being called
NoCalc == [fn |-> "none", qtype |-> "", answer_key |-> NULL,
           response |-> NULL, raw |-> 0, total |-> 0, out |-> 0,
           done |-> FALSE]

MkReq(kind, user, slug, submission_id, question_id, response) ==
    [kind |-> kind, user |-> user, slug |-> slug,
     submission_id |-> submission_id, question_id |-> question_id,
     response |-> response]

\* the database after init_db and the seed, and no request received
Fresh ==
    /\ submissions = <<>>
    /\ answers = <<>>
    /\ now = 1
    /\ pc = [p \in Workers |-> "idle"]
    /\ req = [p \in Workers |-> NoReq]
    /\ loc = [p \in Workers |-> NoLoc]
    /\ sent = [req |-> NoReq, status |-> "none", body |-> NoBody,
               replaced |-> NoAnswer]
    /\ written_total = <<>>
    /\ nreq = 0

Init ==
    /\ Fresh
    /\ questions = seed_questions
    /\ calc = NoCalc

\* finished_at IS NOT NULL
Finished(s) == s.finished_at # NoTime

\* a worker without a request takes the next one, while the run has one
Free(p) == pc[p] = "idle" /\ nreq < MaxReq

\* submission ids a request may name: the stored ones and one not stored
SubmissionIds == 1..(Len(submissions) + 1)

\* datetime.datetime.utcnow(): never earlier than the last reading
UtcNow == {t \in now..(now + 1) : t <= MaxClock}

\* the handler of request r returns; replaced is the row its write
\* overwrote (an answers row, or the submissions row of a finish), if it
\* overwrote one
Return(p, r, status, body, replaced) ==
    /\ pc' = [pc EXCEPT ![p] = "idle"]
    /\ req' = [req EXCEPT ![p] = NoReq]
    /\ loc' = [loc EXCEPT ![p] = NoLoc]
    /\ sent' = [req |-> r, status |-> status, body |-> body,
                replaced |-> replaced]
    /\ UNCHANGED <<questions, calc>>

\* the handler of request r goes on to its next statement with locals l
Goto(p, r, label, l) ==
    /\ pc' = [pc EXCEPT ![p] = label]
    /\ req' = [req EXCEPT ![p] = r]
    /\ loc' = [loc EXCEPT ![p] = l]
    /\ sent' = sent
    /\ UNCHANGED <<questions, calc>>

\* response = (data.get("response") or "").strip()
Response(r) == Strip(OrEmpty(r.response))

----------------------------------------------------------------------------
(* test_start *)

\* SELECT * FROM tests WHERE slug = ?; utcnow(); INSERT INTO submissions;
\* last_insert_rowid(); commit
test_start_by(p, user, slug) ==
    LET r == MkReq("start", user, slug, 0, 0, NULL)
        test == TestBySlug(slug)
    IN  /\ pc[p] = "idle"
        /\ nreq' = nreq + 1
        /\ IF StartRefused(test)
           THEN /\ Return(p, r, "refused", NoBody, NoAnswer)
                /\ UNCHANGED <<submissions, now, written_total>>
           ELSE /\ \E stamp \in UtcNow :
                     /\ now' = stamp
                     /\ submissions' = Append(submissions,
                            NewSubmission(user, test, stamp))
                /\ written_total' = Append(written_total, 0)
                /\ Return(p, r, "ok",
                          [NoBody EXCEPT
                               !.submission_id = Len(submissions) + 1],
                          NoAnswer)
        /\ UNCHANGED answers

test_start(p) ==
    \E user \in Users, slug \in Slugs :
        Free(p) /\ test_start_by(p, user, slug)

----------------------------------------------------------------------------
(* api_answer *)

\* SELECT * FROM submissions WHERE id = ?; SELECT * FROM questions
\* WHERE id = ?; the response is graded
api_answer_by(p, user, submission_id, question_id, response) ==
    LET r == MkReq("answer", user, "", submission_id, question_id, response)
    IN  /\ pc[p] = "idle"
        /\ nreq' = nreq + 1
        /\ IF \/ AnswerRefused(submissions, submission_id, user)
              \/ QuestionMissing(question_id)
           THEN Return(p, r, "refused", NoBody, NoAnswer)
           ELSE Goto(p, r, "answer_existing",
                     [NoLoc EXCEPT !.correct =
                          Grade(questions[question_id], Response(r))])
        /\ UNCHANGED <<submissions, answers, now, written_total>>

api_answer_check(p) ==
    \E user \in Users, submission_id \in SubmissionIds,
       question_id \in QuestionIds, response \in RawResponses :
        Free(p) /\ api_answer_by(p, user, submission_id, question_id, response)

\* SELECT id FROM answers WHERE submission_id = ? AND question_id = ?
api_answer_existing(p) ==
    /\ pc[p] = "answer_existing"
    /\ Goto(p, req[p], "answer_write",
            [loc[p] EXCEPT !.existing =
                 SelectExisting(answers, req[p].submission_id,
                                req[p].question_id)])
    /\ UNCHANGED <<submissions, answers, now, written_total, nreq>>

\* UPDATE answers or INSERT INTO answers; commit
api_answer_write(p) ==
    /\ pc[p] = "answer_write"
    /\ answers' = WriteAnswer(answers, loc[p].existing, req[p].submission_id,
                              req[p].question_id, Response(req[p]),
                              loc[p].correct)
    /\ Return(p, req[p], "ok", [NoBody EXCEPT !.is_correct = loc[p].correct],
              IF loc[p].existing # 0 THEN answers[loc[p].existing]
                                     ELSE NoAnswer)
    /\ UNCHANGED <<submissions, now, written_total, nreq>>

----------------------------------------------------------------------------
(* test_finish *)

\* SELECT * FROM tests WHERE slug = ?; SELECT * FROM submissions
\* WHERE id = ?; the request is checked
test_finish_by(p, user, slug, submission_id) ==
    LET r == MkReq("finish", user, slug, submission_id, 0, NULL)
        test == TestBySlug(slug)
    IN  /\ pc[p] = "idle"
        /\ nreq' = nreq + 1
        /\ IF FinishRefused(submissions, test, submission_id, user)
           THEN Return(p, r, "refused", NoBody, NoAnswer)
           ELSE Goto(p, r, "finish_count", [NoLoc EXCEPT !.test = test])
        /\ UNCHANGED <<submissions, answers, now, written_total>>

test_finish_check(p) ==
    \E user \in Users, slug \in Slugs, submission_id \in SubmissionIds :
        Free(p) /\ test_finish_by(p, user, slug, submission_id)

\* SELECT COUNT(*) FROM questions WHERE test_id = ?; SELECT COUNT(*) FROM
\* answers WHERE submission_id = ? AND is_correct = 1
test_finish_count(p) ==
    /\ pc[p] = "finish_count"
    /\ Goto(p, req[p], "finish_write",
            [loc[p] EXCEPT !.total = CountQuestions(loc[p].test),
                           !.correct =
                               CountCorrect(answers, req[p].submission_id)])
    /\ UNCHANGED <<submissions, answers, now, written_total, nreq>>

\* band_from_raw(correct, total); utcnow(); UPDATE submissions; commit
test_finish_write(p) ==
    /\ pc[p] = "finish_write"
    /\ \E stamp \in UtcNow :
        /\ now' = stamp
        /\ submissions' = FinishRow(submissions, req[p].submission_id,
                              loc[p].correct,
                              band_from_raw(loc[p].correct, loc[p].total),
                              stamp)
    /\ written_total' = [written_total EXCEPT
                             ![req[p].submission_id] = loc[p].total]
    /\ Return(p, req[p], "ok", NoBody, submissions[req[p].submission_id])
    /\ UNCHANGED <<answers, nreq>>

----------------------------------------------------------------------------
(* results_view *)

\* SELECT * FROM submissions WHERE id = ?; SELECT * FROM tests WHERE id = ?;
\* SELECT COUNT(*) FROM questions WHERE test_id = ?; the page is rendered
\* with sub, test and total
results_view(p) ==
    \E user \in Users, submission_id \in SubmissionIds :
        LET r == MkReq("result", user, "", submission_id, 0, NULL)
        IN  /\ Free(p)
            /\ nreq' = nreq + 1
            /\ IF ResultRefused(submissions, submission_id, user)
               THEN Return(p, r, "refused", NoBody, NoAnswer)
               ELSE LET sub == submissions[submission_id] IN
                    Return(p, r, "ok",
                           [NoBody EXCEPT
                                !.raw_score = sub.raw_score,
                                !.band_score = sub.band_score,
                                !.total = CountQuestions(sub.test_id)],
                           NoAnswer)
            /\ UNCHANGED <<submissions, answers, now, written_total>>

----------------------------------------------------------------------------
(* Specifications *)

Step(p) ==
    \/ test_start(p)
    \/ api_answer_check(p)
    \/ api_answer_existing(p)
    \/ api_answer_write(p)
    \/ test_finish_check(p)
    \/ test_finish_count(p)
    \/ test_finish_write(p)
    \/ results_view(p)

\* requests arrive in parallel and their statements interleave
Next == \E p \in Workers : Step(p)

Spec == Init /\ [][Next]_vars

\* one request at a time: a request arrives only when no other is in flight
Quiet(p) == \A w \in Workers \ {p} : pc[w] = "idle"

NextSeq == \E p \in Workers : Quiet(p) /\ Step(p)

SpecSeq == Init /\ [][NextSeq]_vars

----------------------------------------------------------------------------
(* The pure functions on their own: a call is drawn with its arguments, *)
(* and the one step computes its result.                                   *)

\* longest string drawn for a key or a response
GradeMaxLen == 2
\* largest raw and total drawn for band_from_raw
BandMaxTotal == 40

Alphabet == {"B", "b", " "}
Strings == UNION {[1..n -> Alphabet] : n \in 0..GradeMaxLen}
Words == {<<"P", "a", "r", "i", "s">>, <<"p", "a", "r", "i", "s">>}

\* qtype is free text in the schema; the import defaults it to "mcq"
QTypes == {"mcq", "fill", "short"}
\* answer_key TEXT, nullable
AnswerKeys == {NULL} \cup Strings \cup Words
\* the "response" field of the posted JSON (NULL: absent)
PostedResponses == {NULL} \cup Strings \cup Words

GradeCalls ==
    {[NoCalc EXCEPT !.fn = "grade", !.qtype = t, !.answer_key = k,
                    !.response = r] :
         t \in QTypes, k \in AnswerKeys, r \in PostedResponses}

BandCalls ==
    {[NoCalc EXCEPT !.fn = "band", !.raw = c, !.total = n] :
         c \in 0..BandMaxTotal, n \in 0..BandMaxTotal}

InitPure ==
    /\ Fresh
    /\ questions = seed_questions
    /\ calc \in GradeCalls \cup BandCalls

\* api_answer's lines from the read of the response to the grade
grade ==
    /\ calc.fn = "grade"
    /\ ~calc.done
    /\ calc' = [calc EXCEPT !.done = TRUE, !.out =
                    Grade([qtype |-> calc.qtype,
                           answer_key |-> calc.answer_key], Response(calc))]
    /\ UNCHANGED <<submissions, answers, now, pc, req, loc, sent,
                   written_total, nreq, questions>>

band ==
    /\ calc.fn = "band"
    /\ ~calc.done
    /\ calc' = [calc EXCEPT !.done = TRUE,
                            !.out = band_from_raw(calc.raw, calc.total)]
    /\ UNCHANGED <<submissions, answers, now, pc, req, loc, sent,
                   written_total, nreq, questions>>

NextPure == grade \/ band

SpecPure == InitPure /\ [][NextPure]_vars

----------------------------------------------------------------------------
(* One sitting of a test of 20 questions: the student starts it, answers  *)
(* the questions in their order, each once, and finishes from the test's   *)
(* page, waiting for each response before the next request.                *)

\* blank responses the student gives over the sitting
ExamMaxBlank == 3

exam_questions ==
    [i \in 1..20 |-> [test_id |-> 1,
                      qtype |-> IF i % 2 = 1 THEN "mcq" ELSE "fill",
                      answer_key |-> <<"B">>]]

\* what the student posts for a question: the key, or nothing
ExamResponses == {<<"B">>, <<>>}

Blank(ans) == Cardinality({a \in DOMAIN ans : ans[a].response = <<>>})

InitExam ==
    /\ Fresh
    /\ questions = exam_questions
    /\ calc = NoCalc

exam_start(p) ==
    /\ submissions = <<>>
    /\ test_start_by(p, STUDENT, tests[1].slug)

exam_answer(p) ==
    /\ submissions # <<>>
    /\ Len(answers) < Len(questions)
    /\ \E response \in ExamResponses :
           /\ response = <<>> => Blank(answers) < ExamMaxBlank
           /\ api_answer_by(p, STUDENT, 1, Len(answers) + 1, response)

exam_finish(p) ==
    /\ submissions # <<>>
    /\ ~Finished(submissions[1])
    /\ Len(answers) = Len(questions)
    /\ test_finish_by(p, STUDENT, tests[1].slug, 1)

StepExam(p) ==
    \/ exam_start(p)
    \/ exam_answer(p)
    \/ api_answer_existing(p)
    \/ api_answer_write(p)
    \/ exam_finish(p)
    \/ test_finish_count(p)
    \/ test_finish_write(p)

NextExam == \E p \in Workers : Quiet(p) /\ StepExam(p)

SpecExam == InitExam /\ [][NextExam]_vars

----------------------------------------------------------------------------
(* One submission over a longer run: the student starts test 1 once, and  *)
(* then answer and finish requests of any user arrive one at a time.       *)

\* requests served over such a run
LongMaxReq == 4

long_start(p) ==
    /\ submissions = <<>>
    /\ test_start_by(p, STUDENT, tests[1].slug)

long_answer(p) ==
    /\ submissions # <<>>
    /\ nreq < LongMaxReq
    /\ \E user \in Users, submission_id \in SubmissionIds,
          question_id \in QuestionIds, response \in RawResponses :
           api_answer_by(p, user, submission_id, question_id, response)

long_finish(p) ==
    /\ submissions # <<>>
    /\ nreq < LongMaxReq
    /\ \E user \in Users, slug \in Slugs, submission_id \in SubmissionIds :
           test_finish_by(p, user, slug, submission_id)

StepLong(p) ==
    \/ long_start(p)
    \/ long_answer(p)
    \/ api_answer_existing(p)
    \/ api_answer_write(p)
    \/ long_finish(p)
    \/ test_finish_count(p)
    \/ test_finish_write(p)

NextLong == \E p \in Workers : Quiet(p) /\ StepLong(p)

SpecLong == Init /\ [][NextLong]_vars

----------------------------------------------------------------------------
(* Reading a step *)

\* the step sends a response: a request is refused as it arrives, or a
\* handler in flight returns; sent' then holds the request and its response
Returned ==
    \/ (nreq' = nreq + 1 /\ pc' = pc)
    \/ \E p \in Workers : pc[p] # "idle" /\ pc'[p] = "idle"

\* the step is worker p's and leaves its request in flight
InFlight(p) == pc'[p] # pc[p] /\ pc'[p] # "idle"

\* r names a stored submission that r's user does not own
NotOwner(r) ==
    /\ r.submission_id \in DOMAIN submissions
    /\ submissions[r.submission_id].user_id # r.user

\* r names a test, submission or question that is not stored
Missing(r) ==
    \/ (r.kind = "start" /\ \A t \in DOMAIN tests : tests[t].slug # r.slug)
    \/ (r.kind = "answer" /\ (\/ r.submission_id \notin DOMAIN submissions
                              \/ r.question_id \notin DOMAIN questions))
    \/ (r.kind = "finish" /\ r.submission_id \notin DOMAIN submissions)

----------------------------------------------------------------------------
(* Claims *)

\* C1: in every reachable state there is at most one answers row per
\* (submission, question) pair, however two api_answer requests for the
\* same pair interleave.
C1_OneAnswerPerPair ==
    \A a, b \in DOMAIN answers :
        (answers[a].submission_id = answers[b].submission_id
         /\ answers[a].question_id = answers[b].question_id) => a = b

\* C2: when test_finish commits its UPDATE, the raw_score it stores is the
\* number of the submission's answers rows flagged correct at that moment.
C2_RawIsCountAtCommit ==
    [][\A p \in Workers :
          pc[p] = "finish_write" /\ pc'[p] = "idle" =>
              submissions'[req[p].submission_id].raw_score
                  = CountCorrect(answers', req[p].submission_id)]_vars

\* C3: when test_finish commits, the band_score it stores is
\* band_from_raw(raw_score, N), N the number of questions of the test the
\* submission row references.
C3_BandFromOwnTest ==
    [][\A p \in Workers :
          pc[p] = "finish_write" /\ pc'[p] = "idle" =>
              LET s == submissions'[req[p].submission_id] IN
              s.band_score
                  = band_from_raw(s.raw_score, CountQuestions(s.test_id))]_vars

\* C4: every submission row is either unfinished with raw_score 0 and
\* band_score 0.0, or finished with band_score = band_from_raw(raw_score, T),
\* T the question total read by the test_finish that wrote the row.
C4_RowConsistent ==
    \A i \in DOMAIN submissions :
        LET s == submissions[i] IN
        \/ (~Finished(s) /\ s.raw_score = 0 /\ s.band_score = 0)
        \/ (Finished(s)
            /\ s.band_score = band_from_raw(s.raw_score, written_total[i]))

\* C4 witness: a finished row whose raw_score is not the current count of
\* correct answers (an api_answer committed after test_finish counted).
C4_Witness ==
    \E i \in DOMAIN submissions :
        /\ Finished(submissions[i])
        /\ submissions[i].raw_score # CountCorrect(answers, i)
        /\ \A p \in Workers : pc[p] = "idle"

\* C5: an api_answer or test_finish request of a user who does not own the
\* submission it names is refused as it arrives, whatever the user's role:
\* it changes no submissions row and no answers row and never gets in flight.
C5_NotOwnerRefused ==
    [][/\ (Returned /\ sent'.req.kind \in {"answer", "finish"}
                    /\ NotOwner(sent'.req)) =>
              (sent'.status = "refused"
               /\ UNCHANGED <<submissions, answers>>)
       /\ \A p \in Workers :
              (InFlight(p) /\ req'[p].kind \in {"answer", "finish"}) =>
                  ~NotOwner(req'[p])]_vars

\* C5 witness: the admin was refused on a submission of the student that
\* holds an answer.
C5_Witness ==
    /\ sent.status = "refused"
    /\ sent.req.kind \in {"answer", "finish"}
    /\ NotOwner(sent.req)
    /\ Role(sent.req.user) = "admin"
    /\ \E a \in DOMAIN answers :
           answers[a].submission_id = sent.req.submission_id

\* C6: with requests served one at a time, an accepted api_answer leaves
\* exactly one answers row for its pair, holding its own trimmed response and
\* that response's correctness; and when the pair already held that same
\* response, the tables are as they were.
C6_LatestAnswerWins ==
    [][(Returned /\ sent'.req.kind = "answer" /\ sent'.status = "ok") =>
          LET r == sent'.req
              ids == AnswerIds(answers', r.submission_id, r.question_id)
          IN  /\ Cardinality(ids) = 1
              /\ \A a \in ids :
                     /\ answers'[a].response = Response(r)
                     /\ answers'[a].is_correct =
                            Grade(questions[r.question_id], Response(r))
              /\ (\E a \in AnswerIds(answers, r.submission_id, r.question_id) :
                      answers[a].response = Response(r))
                 => UNCHANGED <<submissions, answers>>]_vars

\* C6 witness: the last api_answer overwrote a row that held another
\* response with another correctness, and the row now holds its own.
C6_Witness ==
    /\ sent.req.kind = "answer" /\ sent.status = "ok"
    /\ sent.replaced # NoAnswer
    /\ sent.replaced.response # Response(sent.req)
    /\ sent.replaced.is_correct # sent.body.is_correct
    /\ \E a \in DOMAIN answers :
           /\ answers[a].submission_id = sent.req.submission_id
           /\ answers[a].question_id = sent.req.question_id
           /\ answers[a].response = Response(sent.req)

\* C7: once a submission is finished, no step changes its raw_score,
\* band_score or finished_at.
C7_WrittenOnce ==
    [][\A i \in DOMAIN submissions :
          Finished(submissions[i]) =>
              /\ submissions'[i].raw_score = submissions[i].raw_score
              /\ submissions'[i].band_score = submissions[i].band_score
              /\ submissions'[i].finished_at = submissions[i].finished_at]_vars

\* the step changes no submissions row and changes or adds only answers
\* rows of the (submission, question) pair request r names
AnswerFrame(r) ==
    /\ submissions' = submissions
    /\ Len(answers') >= Len(answers)
    /\ \A a \in DOMAIN answers' :
           (a \notin DOMAIN answers \/ answers'[a] # answers[a]) =>
               /\ answers'[a].submission_id = r.submission_id
               /\ answers'[a].question_id = r.question_id
               /\ a \in DOMAIN answers =>
                      /\ answers[a].submission_id = r.submission_id
                      /\ answers[a].question_id = r.question_id

\* C8: a step of an api_answer request changes no submissions row, whether
\* or not the submission is finished, and changes or adds only answers rows
\* of the (submission, question) pair it names.
C8_AnswerFrame ==
    [][/\ (Returned /\ sent'.req.kind = "answer") => AnswerFrame(sent'.req)
       /\ \A p \in Workers :
              (InFlight(p) /\ req'[p].kind = "answer") =>
                  AnswerFrame(req'[p])]_vars

\* C8 witness: an api_answer was accepted and stored for a submission that
\* is finished.
C8_Witness ==
    /\ sent.req.kind = "answer" /\ sent.status = "ok"
    /\ Finished(submissions[sent.req.submission_id])
    /\ \E a \in DOMAIN answers :
           /\ answers[a].submission_id = sent.req.submission_id
           /\ answers[a].question_id = sent.req.question_id

\* C9: a test_start naming no stored test, an api_answer naming no stored
\* submission or no stored question, and a test_finish naming no stored
\* submission are refused with no submissions row and no answers row added
\* or changed.
C9_MissingRefused ==
    [][/\ (Returned /\ Missing(sent'.req)) =>
              (sent'.status = "refused"
               /\ UNCHANGED <<submissions, answers>>)
       /\ \A p \in Workers : InFlight(p) => ~Missing(req'[p])]_vars

\* C9 witness: an api_answer of the owner naming a stored submission and a
\* question that is not stored was refused.
C9_Witness ==
    /\ sent.status = "refused"
    /\ sent.req.kind = "answer"
    /\ sent.req.submission_id \in DOMAIN submissions
    /\ submissions[sent.req.submission_id].user_id = sent.req.user
    /\ sent.req.question_id \notin DOMAIN questions

\* C10: results_view changes no state; it returns the row's raw_score and
\* band_score and the question total of the row's test when the requester
\* owns the submission or is an admin, and refuses every other requester.
C10_ResultVisibility ==
    [][(Returned /\ sent'.req.kind = "result") =>
          LET r == sent'.req IN
          /\ UNCHANGED <<submissions, answers>>
          /\ IF /\ r.submission_id \in DOMAIN submissions
                /\ \/ submissions[r.submission_id].user_id = r.user
                   \/ Role(r.user) = "admin"
             THEN /\ sent'.status = "ok"
                  /\ sent'.body.raw_score
                         = submissions[r.submission_id].raw_score
                  /\ sent'.body.band_score
                         = submissions[r.submission_id].band_score
                  /\ sent'.body.total = Cardinality(
                         {q \in DOMAIN questions : questions[q].test_id
                              = submissions[r.submission_id].test_id})
             ELSE sent'.status = "refused"]_vars

\* C10 witness: the admin was shown the result of a finished submission of
\* the student.
C10_Witness ==
    /\ sent.req.kind = "result" /\ sent.status = "ok"
    /\ NotOwner(sent.req)
    /\ Role(sent.req.user) = "admin"
    /\ Finished(submissions[sent.req.submission_id])
    /\ sent.body.band_score = submissions[sent.req.submission_id].band_score

----------------------------------------------------------------------------
(* Grading *)

\* the call of the grading lines has returned
Graded == calc.fn = "grade" /\ calc.done

\* C11 as stated: a null answer key is graded as the empty string for every
\* question type, so an empty response against a null key is graded correct
\* whether the question is multiple-choice or free text
C11_NullKeyIsEmpty ==
    Graded /\ calc.answer_key = NULL /\ Response(calc) = <<>>
        => calc.out = 1

\* C11: against a null answer key, a question that is not multiple-choice
\* is graded as against the empty string (correct exactly when the trimmed
\* response is empty), and a multiple-choice question is graded incorrect
\* whatever the response, the empty one included
C11_NullKeyIsEmptyUnlessMcq ==
    Graded /\ calc.answer_key = NULL
        => IF calc.qtype = "mcq"
           THEN calc.out = 0
           ELSE calc.out = 1 <=> Response(calc) = <<>>

\* an empty response to a free-text question with a null key, graded correct
C11_Witness ==
    /\ Graded
    /\ calc.qtype = "fill"
    /\ calc.answer_key = NULL
    /\ calc.response = <<" ">>
    /\ calc.out = 1

\* the same letter, in either case
SameLetter(c, d) == c = d \/ {c, d} \in {{"A", "a"}, {"B", "b"}, {"P", "p"}}

\* equal strings but for the case of their letters
EqualIgnoringCase(r, k) ==
    /\ Len(r) = Len(k)
    /\ \A i \in 1..Len(r) : SameLetter(r[i], k[i])

\* C12: against a key that is not null, a multiple-choice response is
\* correct iff it equals the key exactly, and a response to any other type
\* of question is correct iff it equals the key but for the case of letters
C12_CaseRule ==
    Graded /\ calc.answer_key # NULL
        => (calc.out = 1 <=>
                IF calc.qtype = "mcq"
                THEN Response(calc) = calc.answer_key
                ELSE EqualIgnoringCase(Response(calc), calc.answer_key))

\* "paris" against the key "Paris" of a fill question, graded correct
C12_Witness ==
    /\ Graded
    /\ calc.qtype = "fill"
    /\ calc.answer_key = <<"P", "a", "r", "i", "s">>
    /\ calc.response = <<"p", "a", "r", "i", "s">>
    /\ calc.out = 1

----------------------------------------------------------------------------
(* Scoring *)

\* the call of band_from_raw has returned
Scored == calc.fn = "band" /\ calc.done

\* the threshold table, highest first: percent of the total, band in tenths
BandTable ==
    << <<95, 90>>, <<90, 85>>, <<85, 80>>, <<75, 75>>, <<70, 70>>,
       <<65, 65>>, <<60, 60>>, <<55, 55>>, <<50, 50>>, <<45, 45>> >>

\* the band of the first row of the table that correct/total reaches, the
\* ratio compared exactly, and 4.0 when it reaches none
ExactBand(correct, total) ==
    LET reached == {i \in DOMAIN BandTable :
                        correct * 100 >= BandTable[i][1] * total}
    IN  IF reached = {} THEN 40
        ELSE BandTable[CHOOSE i \in reached : \A j \in reached : i <= j][2]

\* C13: band_from_raw returns 0.0 when total is 0 whatever correct is, and
\* otherwise the band the table gives the exact ratio correct/total: the
\* floating-point comparison never differs from the comparison of
\* correct*100 with threshold*total
C13_BandTable ==
    Scored => calc.out = IF calc.total = 0 THEN 0
                         ELSE ExactBand(calc.raw, calc.total)

\* 9 of 20 is exactly on the lowest threshold and gets its band 4.5
C13_Witness ==
    Scored /\ calc.raw = 9 /\ calc.total = 20 /\ calc.out = 45

\* C14 as stated: band_from_raw(19, 20) is 9.0 and band_from_raw(17, 20)
\* is 8.5
C14_BoundaryRows ==
    Scored /\ calc.total = 20
        => /\ calc.raw = 19 => calc.out = 90
           /\ calc.raw = 17 => calc.out = 85

\* C14: band_from_raw(19, 20) is 9.0 and band_from_raw(17, 20) is 8.0
C14_BoundaryRowsOnThreshold ==
    Scored /\ calc.total = 20
        => /\ calc.raw = 19 => calc.out = 90
           /\ calc.raw = 17 => calc.out = 80

\* band_from_raw(17, 20) has returned 8.0
C14_Witness ==
    Scored /\ calc.raw = 17 /\ calc.total = 20 /\ calc.out = 80

----------------------------------------------------------------------------
(* A sitting *)

\* the answers of submission i that are stored as graded correct
GradedCorrect(i) ==
    {a \in DOMAIN answers :
         answers[a].submission_id = i /\ answers[a].is_correct = 1}

\* C15: on a test of 20 questions, a submission that is finished with
\* exactly 17 of its answers graded correct has raw_score 17 and band
\* score 8.0
C15_SeventeenOfTwenty ==
    \A i \in DOMAIN submissions :
        /\ Finished(submissions[i])
        /\ CountQuestions(submissions[i].test_id) = 20
        /\ Cardinality(GradedCorrect(i)) = 17
        => /\ submissions[i].raw_score = 17
           /\ submissions[i].band_score = 80

\* the sitting is finished with 17 correct answers and 3 blank ones, and
\* the row holds 17 and 8.0
C15_Witness ==
    /\ submissions # <<>>
    /\ Finished(submissions[1])
    /\ Len(answers) = 20
    /\ Cardinality(GradedCorrect(1)) = 17
    /\ submissions[1].raw_score = 17
    /\ submissions[1].band_score = 80

----------------------------------------------------------------------------
(* Finishing again *)

\* the slug of r is the slug of a stored test
SlugStored(r) == \E t \in DOMAIN tests : tests[t].slug = r.slug

\* C16: with requests served one at a time, a test_finish request is
\* refused only for an unknown test, an unknown submission or a user who is
\* not the owner, never because the submission is finished; and the write
\* of a finish, on a finished submission as on an open one, stores the
\* number of the submission's answers now graded correct, the band of that
\* number and the time of the write
C16_FinishAgainOverwrites ==
    [][/\ (Returned /\ sent'.req.kind = "finish"
                    /\ sent'.status = "refused") =>
              (\/ ~SlugStored(sent'.req)
               \/ Missing(sent'.req)
               \/ NotOwner(sent'.req))
       /\ (Returned /\ sent'.req.kind = "finish" /\ sent'.status = "ok") =>
              LET i == sent'.req.submission_id
                  n == CountQuestions(TestBySlug(sent'.req.slug))
              IN  /\ submissions'[i].raw_score = Cardinality(GradedCorrect(i))
                  /\ submissions'[i].band_score =
                         (IF n = 0 THEN 0
                          ELSE ExactBand(submissions'[i].raw_score, n))
                  /\ submissions'[i].finished_at = now'
                  /\ sent'.replaced = submissions[i]]_vars

\* a second finish has overwritten the score of a finished submission with
\* another one: an answer was accepted between the two
C16_Witness ==
    /\ sent.req.kind = "finish"
    /\ sent.status = "ok"
    /\ Finished(sent.replaced)
    /\ sent.replaced.raw_score # submissions[sent.req.submission_id].raw_score
    /\ sent.replaced.band_score # submissions[sent.req.submission_id].band_score

----------------------------------------------------------------------------
(* Integrity of the stored rows *)

\* C17: in every reachable state the raw_score of a finished submission is
\* at most the number of questions of the submission's test
C17_RawWithinTotal ==
    \A i \in DOMAIN submissions :
        Finished(submissions[i]) =>
            submissions[i].raw_score <= CountQuestions(submissions[i].test_id)

\* C18: every answers row is for a question of the test of the row's
\* submission
C18_AnswerOfOwnTest ==
    \A a \in DOMAIN answers :
        questions[answers[a].question_id].test_id =
            submissions[answers[a].submission_id].test_id

\* C19: no step deletes a submissions row or moves it to another user or
\* test, and no step takes a finished submission back to finished_at NULL
C19_FinishedStays ==
    [][\A i \in DOMAIN submissions :
          /\ i \in DOMAIN submissions'
          /\ submissions'[i].user_id = submissions[i].user_id
          /\ submissions'[i].test_id = submissions[i].test_id
          /\ Finished(submissions[i]) => Finished(submissions'[i])]_vars

\* a finished submission has since taken an answer, and it is finished
C19_Witness ==
    /\ sent.req.kind = "answer"
    /\ sent.status = "ok"
    /\ Finished(submissions[sent.req.submission_id])
    /\ \E a \in DOMAIN answers :
           answers[a].submission_id = sent.req.submission_id

====
